---- MODULE Spec2Model ----
(***************************************************************************)
(* Model of the backport action (src/src/backport.ts, src/src/utils.ts and *)
(* the entry point run() of src/unnamed/part_000).                         *)
(*                                                                         *)
(* The program is one sequential async function.  Every awaited external   *)
(* operation (a git command run through exec, a call of the hosting API)   *)
(* is one step of the model; its outcome (resolve, or reject with an       *)
(* Error) is chosen by the environment.  Every operation issued is         *)
(* appended to the history variable ops; the properties are stated over    *)
(* ops and the program state.                                              *)
(*                                                                         *)
(* A label name is held as the sequence of its space-free words, i.e. the  *)
(* result of splitting the name at every single space: "backport 1.x" is   *)
(* <<"backport", "1.x">>, "backport" is <<"backport">> and "backport " is  *)
(* <<"backport", "">>.  Splitting is a bijection between strings and       *)
(* non-empty sequences of space-free words, so nothing is lost.            *)
(*                                                                         *)
(* Spec is the run.  SpecRerun is the run repeated for the same pull       *)
(* request.  The pure functions are studied on their own, on wider inputs: *)
(* SpecLabels (the parse of the labels), SpecLists (the parsers of the     *)
(* comma-delimited inputs) and SpecTitle (the title of the pull request);  *)
(* there the texts are sequences of characters.                            *)
(***************************************************************************)
EXTENDS Integers, Sequences, FiniteSets, TLC

\* ------------------------------------------------------------------ bounds
\* longest label list of the triggering pull request
MaxLabels == 2

\* number of the triggering pull request (payload.pull_request.number)
PRNumber == 42

\* ------------------------------------------------------------------ inputs
LabelNameUniverse ==
  { <<"backport", "1.x">>,
    <<"backport", "1.x", "hd">>,
    <<"backport", "2.x", "hd">>,
    <<"bug">> }

LabelUniverse == { [name |-> n] : n \in LabelNameUniverse }

\* payload.label when the action is not "labeled" (the property is absent)
NoLabel == [name |-> <<>>]

ActionUniverse == {"closed", "labeled", "opened"}

Range(s) == { s[j] : j \in 1..Len(s) }

RECURSIVE DistinctSeqs(_, _)
\* the sequences of length <= n over S without repetition (the labels of a
\* pull request are distinct)
DistinctSeqs(S, n) ==
  IF n = 0 THEN { <<>> }
  ELSE LET shorter == DistinctSeqs(S, n - 1)
       IN  shorter \cup
           UNION { { Append(s, x) : x \in S \ Range(s) } :
                   s \in { q \in shorter : Len(q) = n - 1 } }

\* the filesToSkip lists: none, and one that makes the restore loop turn twice
FilesToSkipUniverse == { <<>>, <<"CHANGELOG.md", "yarn.lock">> }

\* ------------------------------------------------------- pure functions
\* the result of a regular expression that does not match
Null == <<>>

\* labelRegExp.exec(labelName) for /^backport ([^ ]+)(?: ([^ ]+))?$/: the
\* capture groups that took part, <<base>> or <<base, head>> (the second
\* group is undefined when it is not there), or Null when the name does
\* not match
labelRegExpExec(labelName) ==
  IF /\ Len(labelName) \in {2, 3}
     /\ labelName[1] = "backport"
     /\ \A j \in 2..Len(labelName) : labelName[j] # ""
  THEN SubSeq(labelName, 2, Len(labelName))
  ELSE Null

getLabelNames_labeledAll(action, label, labels) ==
  CASE action = "closed"  -> [ j \in 1..Len(labels) |-> labels[j].name ]
    [] action = "labeled" -> [ j \in 1..Len(labels) |-> labels[j].name ]
    [] OTHER              -> <<>>

getLabelNames(action, label, labels) ==
  CASE action = "closed"  -> [ j \in 1..Len(labels) |-> labels[j].name ]
    [] action = "labeled" -> <<label.name>>
    [] OTHER              -> <<>>

\* baseToHead[base] = head on an object kept as the sequence of its
\* entries in Object.entries order: an existing key keeps its place, a new
\* key goes last (no base of the model is an integer-like key).
\* baseToHead is the object literal {}: the key "__proto__" is the accessor
\* inherited from Object.prototype, whose setter ignores a string, so the
\* assignment adds no entry.
SetEntry(baseToHead, base, head) ==
  IF base = "__proto__" THEN baseToHead
  ELSE
  IF \E j \in 1..Len(baseToHead) : baseToHead[j].base = base
  THEN [ j \in 1..Len(baseToHead) |->
           IF baseToHead[j].base = base
           THEN [base |-> base, head |-> head]
           ELSE baseToHead[j] ]
  ELSE Append(baseToHead, [base |-> base, head |-> head])

\* the head of one match: the explicit one, or the default
HeadOf(matches, branchName, pullRequestNumber) ==
  IF Len(matches) = 2 THEN matches[2]
  ELSE IF branchName # ""
       THEN branchName \o "-to-" \o matches[1]
       ELSE "backport-" \o ToString(pullRequestNumber) \o "-to-" \o matches[1]

RECURSIVE ForEachLabel(_, _, _, _)
ForEachLabel(labelNames, branchName, pullRequestNumber, baseToHead) ==
  IF labelNames = <<>> THEN baseToHead
  ELSE LET matches == labelRegExpExec(Head(labelNames))
       IN  ForEachLabel(Tail(labelNames), branchName, pullRequestNumber,
             IF matches # Null
             THEN SetEntry(baseToHead, matches[1],
                           HeadOf(matches, branchName, pullRequestNumber))
             ELSE baseToHead)

getBackportBaseToHead(action, branchName, label, labels, pullRequestNumber) ==
  ForEachLabel(getLabelNames(action, label, labels), branchName,
               pullRequestNumber, <<>>)

\* the grave accent, which a string of this language cannot hold
Backtick == "'"
Fence == Backtick \o Backtick \o Backtick

\* the body of the failure comment, held as the sequence of its lines: the
\* array that the code joins with "\n"
getFailedBackportCommentBody(base, commitToBackport, errorMessage, head) ==
  LET worktreePath == ".worktrees/backport-" \o base
  IN <<
       "The backport to " \o Backtick \o base \o Backtick \o " failed:",
       Fence,
       errorMessage,
       Fence,
       "To backport manually, run these commands in your terminal:",
       Fence \o "bash",
       "# Fetch latest updates from GitHub",
       "git fetch",
       "# Create a new working tree",
       "git worktree add " \o worktreePath \o " " \o base,
       "# Navigate to the new working tree",
       "cd " \o worktreePath,
       "# Create a new branch",
       "git switch --create " \o head,
       "# Cherry-pick the merged commit of this pull request and resolve the conflicts",
       "git cherry-pick -x --mainline 1 " \o commitToBackport,
       "# Push it to GitHub",
       "git push --set-upstream origin " \o head,
       "# Go back to the original working tree",
       "cd ../..",
       "# Delete the working tree",
       "git worktree remove " \o worktreePath,
       Fence,
       "Then, create a pull request where the " \o Backtick \o "base"
         \o Backtick \o " branch is " \o Backtick \o base \o Backtick
         \o " and the " \o Backtick \o "compare" \o Backtick \o "/"
         \o Backtick \o "head" \o Backtick \o " branch is "
         \o Backtick \o head \o Backtick \o "."
     >>

\* -------------------------------------------------------------- state
VARIABLES
  \* the webhook payload and the configuration (inputs of backport())
  action, label, labels, merged,
  branchName, deleteBranch, filesToSkip, labelsToAdd,
  \* the program
  pc,                  \* the await the program is at
  backportBaseToHead,  \* the parsed mapping, as its Object.entries
  i,                   \* index of the target of the current iteration
  k,                   \* index of the file of the current restore
  error,               \* message of the Error in flight, "" when none
  created,             \* what pulls.create returned in this iteration
                       \* (pullRequestNumber of backportOnce), 0 when none
  data,                \* the response of repos.get while
                       \* warnIfSquashIsNotTheOnlyAllowedMergeMethod holds it
  warned,              \* warning() was called
  setFailed,           \* the messages setFailed() was called with
  \* the environment
  ops,                 \* every external operation issued, in order
  nextPullNumber,      \* the number the next pull request gets
  git,                 \* the clone and its remote: the local branches
                       \* created in the clone, the branches of origin, and
                       \* whether the working copy holds uncommitted changes
  \* the text inputs of the pure functions, as sequences of characters
  input,               \* a comma-delimited input of run()
  titleTemplate, titleBase, originalTitle,
  title                \* the title computed for the pull request

inputs == <<action, label, labels, merged,
            branchName, deleteBranch, filesToSkip, labelsToAdd>>
texts == <<input, titleTemplate, titleBase, originalTitle, title>>
vars == <<action, label, labels, merged,
          branchName, deleteBranch, filesToSkip, labelsToAdd,
          pc, backportBaseToHead, i, k, error, created, data, warned,
          setFailed, ops, nextPullNumber, git,
          input, titleTemplate, titleBase, originalTitle, title>>

\* no response of repos.get is held
NoData == [held |-> FALSE, allow_merge_commit |-> FALSE,
           allow_rebase_merge |-> FALSE]
\* no comma-delimited input is under study
NoInput == [defined |-> FALSE, chars |-> <<>>]

\* String(mergeCommitSha)
commitToBackport == "c0ffee"

\* the outer pullRequestNumber of backport(): the payload's number
pullRequestNumber == PRNumber

base == backportBaseToHead[i].base
head == backportBaseToHead[i].head

\* the message of the Error an operation rejects with; exec and the API
\* client reject with Error instances only, so the instanceof test of the
\* catch block of backport() never fails
ErrorMessage(op) == op \o " failed"

\* (the branch-name prefix enters the parse of the labels only: it is left
\* empty here and varied where the parse is studied on its own)
Init ==
  /\ action \in ActionUniverse
  /\ labels \in DistinctSeqs(LabelUniverse, MaxLabels)
  /\ IF action = "labeled" THEN label \in Range(labels) ELSE label = NoLabel
  /\ merged \in BOOLEAN
  /\ branchName = ""
  /\ deleteBranch \in BOOLEAN
  /\ filesToSkip \in FilesToSkipUniverse
  /\ labelsToAdd \in { <<>>, <<"backport">> }
  /\ pc = "start"
  /\ backportBaseToHead = <<>>
  /\ i = 0
  /\ k = 0
  /\ error = ""
  /\ created = 0
  /\ data = NoData
  /\ warned = FALSE
  /\ setFailed = <<>>
  /\ ops = <<>>
  /\ nextPullNumber = PRNumber + 1
  /\ git = [branches |-> {}, remote |-> {}, dirty |-> FALSE]
  /\ input = NoInput
  /\ titleTemplate = <<>>
  /\ titleBase = <<>>
  /\ originalTitle = <<>>
  /\ title = <<>>

\* ------------------------------------------------------------ helpers
\* one external operation issued for the current target (t = 0: outside
\* the loop); num and str are its arguments that the properties read
Issue(op, ok, num, str) ==
  ops' = Append(ops, [op |-> op, t |-> i, ok |-> ok, num |-> num, str |-> str])

\* an Error that leaves backport(): run() catches it and calls setFailed
Fatal(message) ==
  /\ setFailed' = Append(setFailed, message)
  /\ pc' = "done"

\* the next iteration of the for loop over Object.entries(backportBaseToHead)
NextIteration ==
  /\ error' = ""
  /\ created' = 0
  /\ k' = 0
  /\ IF i < Len(backportBaseToHead)
     THEN i' = i + 1 /\ pc' = "switch"
     ELSE i' = i /\ pc' = "done"

\* the group() callback has returned: the optional cleanup, then the next
\* iteration; number is what pulls.create returned in this iteration, 0
\* when it returned nothing
AfterGroup(number) ==
  IF deleteBranch
  THEN /\ error' = ""
       /\ created' = number
       /\ pc' = "check_if_merged"
       /\ UNCHANGED <<i, k>>
  ELSE NextIteration

\* an Error thrown inside the try block of the group() callback
Throw(message) ==
  /\ error' = message
  /\ pc' = "catch"

\* ------------------------------------------------------------ actions
CheckPreconditions_noMergedTest ==
  /\ pc = "start"
  /\ LET parsed == getBackportBaseToHead(action, branchName, label, labels,
                                         pullRequestNumber)
     IN  /\ backportBaseToHead' = parsed
         /\ pc' = IF Len(parsed) = 0 THEN "done" ELSE "repos_get"
  /\ UNCHANGED <<inputs, texts, data, i, k, error, created, warned, setFailed,
                 ops, nextPullNumber, git>>

\* backport(), up to the first await
CheckPreconditions ==
  /\ pc = "start"
  /\ IF ~merged
     THEN /\ pc' = "done"
          /\ UNCHANGED backportBaseToHead
     ELSE LET parsed == getBackportBaseToHead(action, branchName, label,
                                              labels, pullRequestNumber)
          IN  /\ backportBaseToHead' = parsed
              /\ pc' = IF Len(parsed) = 0 THEN "done" ELSE "repos_get"
  /\ UNCHANGED <<inputs, texts, data, i, k, error, created, warned, setFailed,
                 ops, nextPullNumber, git>>

\* warnIfSquashIsNotTheOnlyAllowedMergeMethod: await github.repos.get(...)
ReposGet ==
  /\ pc = "repos_get"
  /\ \E ok, allow_merge_commit, allow_rebase_merge \in BOOLEAN :
       /\ Issue("repos.get", ok, 0, "")
       /\ IF ok
          THEN /\ data' = [held |-> TRUE,
                           allow_merge_commit |-> allow_merge_commit,
                           allow_rebase_merge |-> allow_rebase_merge]
               /\ pc' = "warn"
               /\ UNCHANGED setFailed
          ELSE \* a rejection carries no response
               /\ ~allow_merge_commit /\ ~allow_rebase_merge
               /\ Fatal(ErrorMessage("repos.get"))
               /\ UNCHANGED data
  /\ UNCHANGED <<inputs, texts, backportBaseToHead, i, k, error, created,
                 warned, nextPullNumber, git>>

Warn_fails ==
  /\ pc = "warn"
  /\ warned' = (data.allow_merge_commit \/ data.allow_rebase_merge)
  /\ data' = NoData
  /\ IF data.allow_merge_commit \/ data.allow_rebase_merge
     THEN Fatal("squash is not the only allowed merge method")
     ELSE pc' = "clone" /\ UNCHANGED setFailed
  /\ UNCHANGED <<inputs, texts, backportBaseToHead, i, k, error, created,
                 ops, nextPullNumber, git>>

\* warnIfSquashIsNotTheOnlyAllowedMergeMethod, after the await: the test of
\* the two flags and the warning; the function returns
Warn ==
  /\ pc = "warn"
  /\ warned' = (data.allow_merge_commit \/ data.allow_rebase_merge)
  /\ data' = NoData
  /\ pc' = "clone"
  /\ UNCHANGED <<inputs, texts, backportBaseToHead, i, k, error, created,
                 setFailed, ops, nextPullNumber, git>>

\* await warnIfSquashIsNotTheOnlyAllowedMergeMethod(...)
WarnIfSquashIsNotTheOnlyAllowedMergeMethod ==
  \/ ReposGet
  \/ Warn

Setup_failureIgnored(at, op, to) ==
  /\ pc = at
  /\ \E ok \in BOOLEAN :
       /\ Issue(op, ok, 0, "")
       /\ pc' = to
       /\ UNCHANGED setFailed
  /\ UNCHANGED <<inputs, texts, data, backportBaseToHead, i, k, error, created, warned,
                 nextPullNumber, git>>

\* one of the three awaits before the loop: op at pc = at, then pc = to
Setup(at, op, to) ==
  /\ pc = at
  /\ \E ok \in BOOLEAN :
       /\ Issue(op, ok, 0, "")
       /\ IF ok
          THEN pc' = to /\ UNCHANGED setFailed
          ELSE Fatal(ErrorMessage(op))
  /\ UNCHANGED <<inputs, texts, data, backportBaseToHead, i, k, error, created, warned,
                 nextPullNumber, git>>

Clone == Setup("clone", "clone", "config_email")

ConfigEmail == Setup("config_email", "config user.email", "config_name")

\* the last await before the loop; then the first iteration begins
ConfigName ==
  /\ pc = "config_name"
  /\ \E ok \in BOOLEAN :
       /\ Issue("config user.name", ok, 0, "")
       /\ IF ok
          THEN NextIteration /\ UNCHANGED setFailed
          ELSE Fatal(ErrorMessage("config user.name"))
               /\ UNCHANGED <<i, k, error, created>>
  /\ UNCHANGED <<inputs, texts, data, backportBaseToHead, warned, nextPullNumber, git>>

\* backportOnce: await git("switch", base)
Switch ==
  /\ pc = "switch"
  /\ \E ok \in BOOLEAN :
       /\ Issue("switch", ok, 0, base)
       /\ IF ok
          THEN pc' = "switch_create" /\ UNCHANGED error
          ELSE Throw(ErrorMessage("switch"))
  /\ UNCHANGED <<inputs, texts, data, backportBaseToHead, i, k, created, warned,
                 setFailed, nextPullNumber, git>>

SwitchCreate_forceCreate ==
  /\ pc = "switch_create"
  /\ \E ok \in BOOLEAN :
       /\ Issue("switch --create", ok, 0, head)
       /\ IF ok
          THEN /\ pc' = "cherry_pick"
               /\ git' = [git EXCEPT !.branches = @ \cup {head}]
               /\ UNCHANGED error
          ELSE /\ Throw(ErrorMessage("switch --create"))
               /\ UNCHANGED git
  /\ UNCHANGED <<inputs, texts, data, backportBaseToHead, i, k, created, warned,
                 setFailed, nextPullNumber>>

\* backportOnce: await git("switch", "--create", head); git refuses to
\* create a branch that exists in the clone, whatever origin holds
SwitchCreate ==
  /\ pc = "switch_create"
  /\ \E ok \in BOOLEAN :
       /\ head \in git.branches => ~ok
       /\ Issue("switch --create", ok, 0, head)
       /\ IF ok
          THEN /\ pc' = "cherry_pick"
               /\ git' = [git EXCEPT !.branches = @ \cup {head}]
               /\ UNCHANGED error
          ELSE /\ Throw(ErrorMessage("switch --create"))
               /\ UNCHANGED git
  /\ UNCHANGED <<inputs, texts, data, backportBaseToHead, i, k, created, warned,
                 setFailed, nextPullNumber>>

ThrowInTry_noAbort(message) ==
  /\ error' = message
  /\ pc' = "catch"

\* a rejection inside try { cherry-pick; checkout...; commit }: the catch
\* block runs the abort next
ThrowInTry(message) ==
  /\ error' = message
  /\ pc' = "abort"

\* backportOnce: await git("cherry-pick", "-x", "-n", commitToBackport).
\* With -n the changes of the commit are applied to the working copy and
\* the index and not committed; a rejection is a conflict, which leaves
\* the conflicting changes in the working copy.
CherryPick ==
  /\ pc = "cherry_pick"
  /\ \E ok \in BOOLEAN :
       /\ Issue("cherry-pick", ok, 0, commitToBackport)
       /\ IF ok
          THEN /\ IF Len(filesToSkip) > 0
                  THEN pc' = "checkout" /\ k' = 1
                  ELSE pc' = "commit" /\ k' = k
               /\ UNCHANGED error
          ELSE ThrowInTry(ErrorMessage("cherry-pick")) /\ UNCHANGED k
  /\ git' = [git EXCEPT !.dirty = TRUE]
  /\ UNCHANGED <<inputs, texts, data, backportBaseToHead, i, created, warned,
                 setFailed, nextPullNumber>>

\* backportOnce: await git("checkout", "HEAD", file), file = filesToSkip[k]
Checkout ==
  /\ pc = "checkout"
  /\ \E ok \in BOOLEAN :
       /\ Issue("checkout", ok, 0, filesToSkip[k])
       /\ IF ok
          THEN /\ IF k < Len(filesToSkip)
                  THEN pc' = "checkout" /\ k' = k + 1
                  ELSE pc' = "commit" /\ k' = k
               /\ UNCHANGED error
          ELSE ThrowInTry(ErrorMessage("checkout")) /\ UNCHANGED k
  /\ UNCHANGED <<inputs, texts, data, backportBaseToHead, i, created, warned,
                 setFailed, nextPullNumber, git>>

Commit_skipPush ==
  /\ pc = "commit"
  /\ \E ok \in BOOLEAN :
       /\ Issue("commit", ok, 0, "")
       /\ IF ok
          THEN /\ pc' = "pulls_create"
               /\ git' = [git EXCEPT !.dirty = FALSE]
               /\ UNCHANGED error
          ELSE /\ ThrowInTry(ErrorMessage("commit"))
               /\ UNCHANGED git
  /\ UNCHANGED <<inputs, texts, data, backportBaseToHead, i, k, created, warned,
                 setFailed, nextPullNumber>>

\* backportOnce: await git("commit", "--no-edit", "-s"); the commit takes
\* the staged changes out of the working copy
Commit ==
  /\ pc = "commit"
  /\ \E ok \in BOOLEAN :
       /\ Issue("commit", ok, 0, "")
       /\ IF ok
          THEN /\ pc' = "push"
               /\ git' = [git EXCEPT !.dirty = FALSE]
               /\ UNCHANGED error
          ELSE /\ ThrowInTry(ErrorMessage("commit"))
               /\ UNCHANGED git
  /\ UNCHANGED <<inputs, texts, data, backportBaseToHead, i, k, created, warned,
                 setFailed, nextPullNumber>>

\* backportOnce, catch: await git("cherry-pick", "--abort"); throw error.
\* When the abort rejects, its Error is the one that leaves the catch block
\* and the throw statement is not reached.  An abort that succeeds
\* restores the working copy; one that rejects leaves it as it is.
Abort ==
  /\ pc = "abort"
  /\ \E ok \in BOOLEAN :
       /\ Issue("cherry-pick --abort", ok, 0, "")
       /\ IF ok
          THEN /\ Throw(error)
               /\ git' = [git EXCEPT !.dirty = FALSE]
          ELSE /\ Throw(ErrorMessage("cherry-pick --abort"))
               /\ UNCHANGED git
  /\ UNCHANGED <<inputs, texts, data, backportBaseToHead, i, k, created, warned,
                 setFailed, nextPullNumber>>

\* backportOnce: await git("push", "--set-upstream", "origin", head)
Push ==
  /\ pc = "push"
  /\ \E ok \in BOOLEAN :
       /\ Issue("push", ok, 0, head)
       /\ IF ok
          THEN /\ pc' = "pulls_create"
               /\ git' = [git EXCEPT !.remote = @ \cup {head}]
               /\ UNCHANGED error
          ELSE /\ Throw(ErrorMessage("push"))
               /\ UNCHANGED git
  /\ UNCHANGED <<inputs, texts, data, backportBaseToHead, i, k, created, warned,
                 setFailed, nextPullNumber>>

\* backportOnce: await github.pulls.create(...); without labels to add it
\* returns the number and the group() callback ends
PullsCreate ==
  /\ pc = "pulls_create"
  /\ \E ok \in BOOLEAN :
       /\ Issue("pulls.create", ok, IF ok THEN nextPullNumber ELSE 0, head)
       /\ IF ok
          THEN /\ nextPullNumber' = nextPullNumber + 1
               /\ IF Len(labelsToAdd) > 0
                  THEN /\ created' = nextPullNumber
                       /\ pc' = "add_labels"
                       /\ UNCHANGED <<i, k, error>>
                  ELSE AfterGroup(nextPullNumber)
          ELSE /\ Throw(ErrorMessage("pulls.create"))
               /\ UNCHANGED <<i, k, created, nextPullNumber>>
  /\ UNCHANGED <<inputs, texts, data, backportBaseToHead, warned, setFailed, git>>

\* backportOnce: await github.issues.addLabels({issue_number:
\* pullRequestNumber, ...}), pullRequestNumber the one of backportOnce
AddLabels ==
  /\ pc = "add_labels"
  /\ \E ok \in BOOLEAN :
       /\ Issue("issues.addLabels", ok, created, "")
       /\ IF ok
          THEN AfterGroup(created)
          ELSE Throw(ErrorMessage("issues.addLabels"))
               /\ UNCHANGED <<i, k, created>>
  /\ UNCHANGED <<inputs, texts, data, backportBaseToHead, warned, setFailed,
                 nextPullNumber, git>>

CreateComment_onCreatedPullRequest ==
  /\ pc = "catch"
  /\ \E ok \in BOOLEAN :
       /\ Issue("issues.createComment", ok,
                IF created # 0 THEN created ELSE pullRequestNumber,
                getFailedBackportCommentBody(base, commitToBackport, error,
                                             head))
       /\ IF ok
          THEN AfterGroup(created) /\ UNCHANGED setFailed
          ELSE /\ Fatal(ErrorMessage("issues.createComment"))
               /\ UNCHANGED <<i, k, error, created>>
  /\ UNCHANGED <<inputs, texts, data, backportBaseToHead, warned, nextPullNumber, git>>

CreateComment_rethrow ==
  /\ pc = "catch"
  /\ \E ok \in BOOLEAN :
       /\ Issue("issues.createComment", ok, pullRequestNumber,
                getFailedBackportCommentBody(base, commitToBackport, error,
                                             head))
       /\ Fatal(IF ok THEN error ELSE ErrorMessage("issues.createComment"))
       /\ UNCHANGED <<i, k, error, created>>
  /\ UNCHANGED <<inputs, texts, data, backportBaseToHead, warned, nextPullNumber, git>>

\* backport, catch: the Error is logged and the comment created.  The
\* pullRequestNumber of the try block is not in scope here: issue_number
\* is the number of the payload.
CreateComment ==
  /\ pc = "catch"
  /\ \E ok \in BOOLEAN :
       /\ Issue("issues.createComment", ok, pullRequestNumber,
                getFailedBackportCommentBody(base, commitToBackport, error,
                                             head))
       /\ IF ok
          THEN AfterGroup(created) /\ UNCHANGED setFailed
          ELSE /\ Fatal(ErrorMessage("issues.createComment"))
               /\ UNCHANGED <<i, k, error, created>>
  /\ UNCHANGED <<inputs, texts, data, backportBaseToHead, warned, nextPullNumber, git>>

CheckIfMerged_deleteAnyway ==
  /\ pc = "check_if_merged"
  /\ \E ok \in BOOLEAN :
       /\ Issue("pulls.checkIfMerged", ok, pullRequestNumber, "")
       /\ pc' = "push_delete"
       /\ UNCHANGED <<i, k, error, created>>
  /\ UNCHANGED <<inputs, texts, data, backportBaseToHead, warned, setFailed,
                 nextPullNumber, git>>

\* deleteBackportBranchIfMerged: await github.pulls.checkIfMerged({
\* pull_number: pullRequestNumber, ...}) inside try/catch; the argument is
\* the pullRequestNumber in scope at the call in backport(): the payload's
CheckIfMerged ==
  /\ pc = "check_if_merged"
  /\ \E ok \in BOOLEAN :
       /\ Issue("pulls.checkIfMerged", ok, pullRequestNumber, "")
       /\ IF ok
          THEN pc' = "push_delete" /\ UNCHANGED <<i, k, error, created>>
          ELSE NextIteration
  /\ UNCHANGED <<inputs, texts, data, backportBaseToHead, warned, setFailed,
                 nextPullNumber, git>>

\* deleteBackportBranchIfMerged: await git("push", "--delete", "--force",
\* base, head)
PushDelete ==
  /\ pc = "push_delete"
  /\ \E ok \in BOOLEAN :
       /\ Issue("push --delete", ok, 0, head)
       /\ IF ok
          THEN NextIteration /\ UNCHANGED setFailed
          ELSE /\ Fatal(ErrorMessage("push --delete"))
               /\ UNCHANGED <<i, k, error, created>>
  /\ UNCHANGED <<inputs, texts, data, backportBaseToHead, warned, nextPullNumber, git>>

Next ==
  \/ CheckPreconditions
  \/ WarnIfSquashIsNotTheOnlyAllowedMergeMethod
  \/ Clone
  \/ ConfigEmail
  \/ ConfigName
  \/ Switch
  \/ SwitchCreate
  \/ CherryPick
  \/ Checkout
  \/ Commit
  \/ Abort
  \/ Push
  \/ PullsCreate
  \/ AddLabels
  \/ CreateComment
  \/ CheckIfMerged
  \/ PushDelete

Spec == Init /\ [][Next]_vars

TypeOK ==
  /\ pc \in {"start", "repos_get", "warn", "clone", "config_email",
             "config_name",
             "switch", "switch_create", "cherry_pick", "checkout", "commit",
             "abort", "push", "pulls_create", "add_labels", "catch",
             "check_if_merged", "push_delete", "done",
             "inputs", "title", "group"}
  /\ i \in 0..Len(backportBaseToHead)
  /\ Len(setFailed) <= 1
  /\ data.held = (pc = "warn")
  /\ git.dirty \in BOOLEAN

\* ------------------------------------------------- reading the history
Targets == 1..Len(backportBaseToHead)

\* the steps of the per-target procedure backportOnce
StepOps == {"switch", "switch --create", "cherry-pick", "checkout", "commit",
            "push", "pulls.create", "issues.addLabels"}
\* the steps inside the try block of backportOnce
TryOps == {"cherry-pick", "checkout", "commit"}
AbortOp == "cherry-pick --abort"
CleanupOps == {"pulls.checkIfMerged", "push --delete"}

\* the positions of ops where op was issued for target t
Issued(t, op) == { j \in 1..Len(ops) : ops[j].t = t /\ ops[j].op = op }
\* the positions of ops where a step out of S failed for target t
FailedIn(t, S) ==
  { j \in 1..Len(ops) : ops[j].t = t /\ ops[j].op \in S /\ ~ops[j].ok }

Started(t) == Issued(t, "switch") # {}
\* backportOnce threw for target t, or is about to (the abort is pending)
TargetFailed(t) == FailedIn(t, StepOps) # {}
\* the numbers of the pull requests created for target t
CreatedFor(t) ==
  { ops[j].num : j \in { n \in Issued(t, "pulls.create") : ops[n].ok } }
\* the Error of target t is still inside backportOnce or not yet handled
Pending(t) == i = t /\ pc \in {"abort", "catch"}
\* the iteration of target t is over
Finished(t) == t < i \/ (t = i /\ pc = "done")

\* --------------------------------------------------------------- claims

\* C1: failure isolation.  When the run has ended, every target that comes
\* after a target whose procedure failed at one of its steps was attempted
\* (its git switch <base> was issued).  Stated here for the runs in which
\* every failure comment was posted, so that what refutes it is not a
\* failing comment.
C1_FailureIsolation ==
  (pc = "done" /\ \A j \in 1..Len(ops) :
                     ops[j].op = "issues.createComment" => ops[j].ok)
  => \A t \in Targets : TargetFailed(t) =>
       \A u \in Targets : u > t => Started(u)

\* C2: failure reporting.  A target whose procedure failed gets exactly one
\* createComment call once its Error is handled and none before; a target
\* that did not fail gets none; the call names the triggering pull request,
\* never a pull request created in this run; its body is
\* getFailedBackportCommentBody of the target's own base and head, the
\* commit, and the message of an Error raised for that target.
C2_FailureReporting ==
  LET createdNumbers ==
        { ops[n].num : n \in { m \in 1..Len(ops) :
                                 ops[m].op = "pulls.create" /\ ops[m].ok } }
  IN \A t \in Targets :
       LET comments == Issued(t, "issues.createComment")
       IN  /\ Cardinality(comments) =
                IF TargetFailed(t) /\ ~Pending(t) THEN 1 ELSE 0
           /\ \A j \in comments :
                /\ ops[j].num = PRNumber
                /\ ops[j].num \notin createdNumbers
                /\ \E f \in FailedIn(t, StepOps \cup {AbortOp}) :
                     ops[j].str = getFailedBackportCommentBody(
                                    backportBaseToHead[t].base,
                                    commitToBackport,
                                    ErrorMessage(ops[f].op),
                                    backportBaseToHead[t].head)

\* reached: a comment was posted for a failed target in a run that also
\* created a backport pull request
C2_Witness ==
  /\ pc = "done"
  /\ \E t \in Targets : Issued(t, "issues.createComment") # {}
  /\ \E t \in Targets : CreatedFor(t) # {}

\* C3: precondition skip.  When the pull request is not merged, or the
\* labels parse to an empty mapping, the run goes from its start straight
\* to its end, no external operation is ever issued, no warning emitted and
\* setFailed is never called.
C3_PreconditionSkip ==
  (\/ ~merged
   \/ getBackportBaseToHead(action, branchName, label, labels,
                            pullRequestNumber) = <<>>)
  => /\ ops = <<>>
     /\ setFailed = <<>>
     /\ ~warned
     /\ pc \in {"start", "done"}

\* reached: a run on a pull request that is not merged but carries backport
\* labels has ended
C3_Witness ==
  /\ pc = "done"
  /\ ~merged
  /\ action = "closed"
  /\ \E j \in 1..Len(labels) : labelRegExpExec(labels[j].name) # Null

\* C4: the outcome of a target is exclusive and single.  Once the iteration
\* of a target is over, either a pull request was created for it or a
\* failure comment was issued for it, not both and not neither, and its
\* procedure was started once.
C4_ExclusiveOutcome ==
  \A t \in Targets :
    /\ Cardinality(Issued(t, "switch")) <= 1
    /\ (Finished(t) /\ Started(t)) =>
         ((CreatedFor(t) # {}) # (Issued(t, "issues.createComment") # {}))

\* C5: compensating abort.  git cherry-pick --abort is issued for a target
\* only after the cherry-pick, a file restore or the commit of that target
\* failed, at most once, and never for a target whose switch, branch
\* creation, push, pull-request creation or label application failed; and
\* once such a failure has left backportOnce the abort has been issued.
C5_CompensatingAbort ==
  \A t \in Targets :
    LET aborts == Issued(t, AbortOp)
        failedInTry == FailedIn(t, TryOps)
    IN  /\ Cardinality(aborts) <= 1
        /\ \A a \in aborts :
             /\ \E f \in failedInTry : f < a
             /\ FailedIn(t, StepOps \ TryOps) = {}
        /\ (failedInTry # {} /\ ~(i = t /\ pc = "abort")) => aborts # {}
        /\ failedInTry = {} => aborts = {}

\* reached: the Error of a failed commit is being handled by the caller of
\* backportOnce, after the abort
C5_Witness ==
  /\ pc = "catch"
  /\ FailedIn(i, {"commit"}) # {}
  /\ Issued(i, AbortOp) # {}

\* C6: the underlying error is preserved through the abort.  The failure
\* comment of a target whose cherry-pick, file restore or commit failed
\* carries the message of that failed step, whatever the abort did.
C6_UnderlyingErrorPreserved ==
  \A t \in Targets :
    \A f \in FailedIn(t, TryOps) :
      \A j \in Issued(t, "issues.createComment") :
        ops[j].str = getFailedBackportCommentBody(
                       backportBaseToHead[t].base, commitToBackport,
                       ErrorMessage(ops[f].op), backportBaseToHead[t].head)

\* C7: branch cleanup gating.  A cleanup operation (the check-if-merged
\* query, the remote branch deletion) is issued for a target only when
\* deleteBranch is set and a pull request was created for that target.
C7_CleanupGating ==
  \A j \in 1..Len(ops) :
    ops[j].op \in CleanupOps => (deleteBranch /\ CreatedFor(ops[j].t) # {})

\* C8: branch cleanup checks its own pull request.  The check-if-merged
\* query issued for a target for which a pull request was created asks
\* about that pull request.
C8_CleanupChecksOwnPullRequest ==
  \A t \in Targets :
    CreatedFor(t) # {} =>
      \A j \in Issued(t, "pulls.checkIfMerged") : ops[j].num \in CreatedFor(t)

\* C9: per-target failures do not fail the run.  As long as every failed
\* operation is a step of the per-target procedure (its abort included),
\* setFailed is not called; and when such a run has ended every target was
\* attempted and every failed target has its comment on the triggering
\* pull request.
C9_PerTargetFailuresDoNotFailRun ==
  (\A j \in 1..Len(ops) : ~ops[j].ok => ops[j].op \in StepOps \cup {AbortOp})
  => /\ setFailed = <<>>
     /\ pc = "done" =>
          \A t \in Targets :
            /\ Started(t)
            /\ TargetFailed(t) =>
                 \E j \in Issued(t, "issues.createComment") :
                   ops[j].ok /\ ops[j].num = PRNumber

\* reached: a run over two targets has ended, a step of the first target
\* failed, nothing else did
C9_Witness ==
  /\ pc = "done"
  /\ Len(backportBaseToHead) = 2
  /\ TargetFailed(1)
  /\ \A j \in 1..Len(ops) : ~ops[j].ok => ops[j].op \in StepOps

\* the bases named by the names of S that match labelRegExp
MatchingBases(S) ==
  { labelRegExpExec(n)[1] : n \in { m \in S : labelRegExpExec(m) # Null } }

\* C10: label selection by action.  The bases of the parsed mapping are the
\* bases named by all labels of the pull request when the action is
\* "closed", the base named by the triggering label alone when it is
\* "labeled" (with the head that label gives), and there is none for any
\* other action.
C10_LabelSelection ==
  (merged /\ pc # "start") =>
    LET bases == { backportBaseToHead[j].base : j \in Targets }
    IN  CASE action = "closed" ->
               bases = MatchingBases({ labels[j].name : j \in 1..Len(labels) })
          [] action = "labeled" ->
               /\ bases = MatchingBases({ label.name })
               /\ \A j \in Targets :
                    backportBaseToHead[j].head =
                      HeadOf(labelRegExpExec(label.name), branchName, PRNumber)
          [] OTHER -> backportBaseToHead = <<>>

\* reached: a "labeled" run whose pull request carries a second backport
\* label, for another base, that produced no target
C10_Witness ==
  /\ merged /\ pc # "start"
  /\ action = "labeled"
  /\ Len(backportBaseToHead) = 1
  /\ \E j \in 1..Len(labels) :
       /\ labelRegExpExec(labels[j].name) # Null
       /\ labelRegExpExec(labels[j].name)[1] # backportBaseToHead[1].base

\* ------------------------------------------- the label parser on its own
\* label names for the study of getBackportBaseToHead: the four of the
\* runs, the bare "backport", "backport " (an empty word), a name of four
\* words, a second head for the base 1.x, a name that differs in case, and
\* the base "__proto__"
WideLabelNameUniverse ==
  LabelNameUniverse \cup
  { <<"backport">>,
    <<"backport", "">>,
    <<"backport", "1.x", "hd", "x">>,
    <<"backport", "1.x", "h2">>,
    <<"Backport", "1.x">>,
    <<"backport", "__proto__">> }

\* a merged pull request with any labels of the wide universe, handed to
\* backport(), which runs up to the parsed mapping
InitLabels ==
  /\ action \in ActionUniverse
  /\ labels \in DistinctSeqs({ [name |-> n] : n \in WideLabelNameUniverse },
                             MaxLabels)
  /\ label \in IF action = "labeled" THEN Range(labels) ELSE { NoLabel }
  /\ merged = TRUE
  /\ branchName \in {"", "bp"}
  /\ deleteBranch = FALSE
  /\ filesToSkip = <<>>
  /\ labelsToAdd = <<>>
  /\ pc = "start"
  /\ backportBaseToHead = <<>>
  /\ i = 0
  /\ k = 0
  /\ error = ""
  /\ created = 0
  /\ data = NoData
  /\ warned = FALSE
  /\ setFailed = <<>>
  /\ ops = <<>>
  /\ nextPullNumber = PRNumber + 1
  /\ git = [branches |-> {}, remote |-> {}, dirty |-> FALSE]
  /\ input = NoInput
  /\ titleTemplate = <<>>
  /\ titleBase = <<>>
  /\ originalTitle = <<>>
  /\ title = <<>>

SpecLabels == InitLabels /\ [][CheckPreconditions]_vars

\* the label name matches "backport <base>" or "backport <base> <head>"
IsBackportLabel(n) ==
  /\ Len(n) \in {2, 3}
  /\ n[1] = "backport"
  /\ \A j \in 2..Len(n) : n[j] # ""

\* C11: target resolution.  Once the labels are parsed, the mapping has
\* exactly one entry per distinct base named by a label of the form
\* "backport <base>" or "backport <base> <head>" among the labels considered
\* and no other entry; the head of an entry is the one given by the last
\* such label naming its base: the explicit head, else
\* "<branchName>-to-<base>" when the branch-name prefix is not empty, else
\* "backport-<number>-to-<base>".
C11_TargetResolution ==
  (merged /\ pc # "start") =>
    LET names == getLabelNames(action, label, labels)
        M == { j \in 1..Len(names) : IsBackportLabel(names[j]) }
        bases == { names[j][2] : j \in M }
        Last(b) == CHOOSE j \in M :
                     /\ names[j][2] = b
                     /\ \A m \in M : names[m][2] = b => m <= j
        Expected(b) ==
          LET n == names[Last(b)]
          IN  IF Len(n) = 3 THEN n[3]
              ELSE IF branchName # ""
                   THEN branchName \o "-to-" \o b
                   ELSE "backport-" \o ToString(PRNumber) \o "-to-" \o b
    IN  /\ { backportBaseToHead[j].base : j \in Targets } = bases
        /\ Len(backportBaseToHead) = Cardinality(bases)
        /\ \A j \in Targets :
             backportBaseToHead[j].head = Expected(backportBaseToHead[j].base)

\* the same, for the pull requests none of whose labels names "__proto__"
C11_ExceptProto ==
  (\A j \in 1..Len(labels) : labels[j].name # <<"backport", "__proto__">>)
    => C11_TargetResolution

\* --------------------------------------------------- the repeated run
\* the heads of the targets of the run
HeadsOfRun ==
  LET parsed == getBackportBaseToHead(action, branchName, label, labels,
                                      pullRequestNumber)
  IN  { parsed[j].head : j \in 1..Len(parsed) }

\* the run is repeated for the same closed, merged pull request: origin
\* holds the heads that the first run pushed and the pull requests it
\* created; the clone of line 284 is a fresh one
InitRerun ==
  /\ action = "closed"
  /\ labels \in DistinctSeqs(LabelUniverse, MaxLabels)
  /\ label = NoLabel
  /\ merged = TRUE
  /\ branchName \in {"", "bp"}
  /\ deleteBranch \in BOOLEAN
  /\ filesToSkip \in FilesToSkipUniverse
  /\ labelsToAdd \in { <<>>, <<"backport">> }
  /\ pc = "start"
  /\ backportBaseToHead = <<>>
  /\ i = 0
  /\ k = 0
  /\ error = ""
  /\ created = 0
  /\ data = NoData
  /\ warned = FALSE
  /\ setFailed = <<>>
  /\ ops = <<>>
  /\ nextPullNumber = PRNumber + 1 + Cardinality(HeadsOfRun)
  /\ git = [branches |-> {}, remote |-> HeadsOfRun, dirty |-> FALSE]
  /\ input = NoInput
  /\ titleTemplate = <<>>
  /\ titleBase = <<>>
  /\ originalTitle = <<>>
  /\ title = <<>>

SpecRerun == InitRerun /\ [][Next]_vars

\* an earlier target of this run created the head of target t in the clone
CreatedInClone(t) ==
  \E u \in 1..(t - 1) :
    /\ backportBaseToHead[u].head = backportBaseToHead[t].head
    /\ \E j \in Issued(u, "switch --create") : ops[j].ok

\* origin held the head of target t before target t pushed anything
OnOriginBefore(t) ==
  /\ backportBaseToHead[t].head \in git.remote
  /\ ~\E u \in t..Len(backportBaseToHead) :
        /\ backportBaseToHead[u].head = backportBaseToHead[t].head
        /\ \E j \in Issued(u, "push") : ops[j].ok

\* target t failed at the creation of its branch, did nothing after it, and
\* the failure was commented on the original pull request
FailsAtBranchCreation(t) ==
  /\ \A j \in Issued(t, "switch --create") : ~ops[j].ok
  /\ \A op \in {"cherry-pick", "checkout", "commit", "push", "pulls.create",
                "issues.addLabels"} : Issued(t, op) = {}
  /\ (Issued(t, "switch --create") # {} /\ ~Pending(t)) =>
       \E j \in Issued(t, "issues.createComment") : ops[j].num = PRNumber

\* C12 as stated: second run against an existing head.  A target whose head
\* branch exists when the target is processed, in the clone (an earlier
\* target of the run created it) or on origin (the first run pushed it),
\* fails at branch creation, does no cherry-pick, commit, push or
\* pull-request creation, and its failure is commented.
C12_ExistingHeadFailsAtCreation ==
  \A t \in Targets :
    (CreatedInClone(t) \/ OnOriginBefore(t)) => FailsAtBranchCreation(t)

\* C12, amended: a target whose head branch exists in the clone when the
\* target is processed (an earlier target of the run created it) fails at
\* branch creation, does no cherry-pick, commit, push or pull-request
\* creation, and its failure is commented on the original pull request.
C12_HeadInCloneFailsAtCreation ==
  \A t \in Targets : CreatedInClone(t) => FailsAtBranchCreation(t)

\* reached: the second of two targets with one head was refused its branch
\* and the comment was issued
C12_Witness ==
  \E t \in Targets :
    /\ CreatedInClone(t)
    /\ Issued(t, "switch --create") # {}
    /\ Issued(t, "issues.createComment") # {}

\* ------------------------------------------------------ the list parsers
\* A comma-delimited input is held as the sequence of its characters.
\* longest input string
MaxLen == 4

\* the characters of the inputs: two letters, the blank and the comma
Chars == {"a", "b", " ", ","}

\* the white space that String.prototype.trim removes (of it, the inputs
\* hold the blank)
Whitespace == {" ", "\t", "\n"}

\* the strings of at most n characters
Strings(n) == UNION { [1..m -> Chars] : m \in 0..n }

RECURSIVE Split(_, _)
\* s.split(sep) for a separator of one character: the fields between the
\* separators, [""] for the empty string
Split(s, sep) ==
  IF \A j \in 1..Len(s) : s[j] # sep THEN << s >>
  ELSE LET p == CHOOSE j \in 1..Len(s) :
                  s[j] = sep /\ \A m \in 1..(j - 1) : s[m] # sep
       IN  << SubSeq(s, 1, p - 1) >> \o Split(SubSeq(s, p + 1, Len(s)), sep)

RECURSIVE Trim(_)
\* s.trim()
Trim(s) ==
  IF s = <<>> THEN s
  ELSE IF s[1] \in Whitespace THEN Trim(Tail(s))
  ELSE IF s[Len(s)] \in Whitespace THEN Trim(SubSeq(s, 1, Len(s) - 1))
  ELSE s

\* array.map((v) => v.trim())
MapTrim(array) == [ j \in 1..Len(array) |-> Trim(array[j]) ]

\* array.indexOf(item) for an item of the array, counted from 1
IndexOf(array, item) ==
  CHOOSE j \in 1..Len(array) :
    array[j] = item /\ \A m \in 1..(j - 1) : array[m] # item

RECURSIVE FilterFirst(_, _)
\* the first n elements of array.filter((item, idx, labels) =>
\* labels.indexOf(item) === idx)
FilterFirst(array, n) ==
  IF n = 0 THEN <<>>
  ELSE IF IndexOf(array, array[n]) = n
       THEN Append(FilterFirst(array, n - 1), array[n])
       ELSE FilterFirst(array, n - 1)

\* a string is truthy when it is not empty
Truthy(item) == item # <<>>

parseCommaDelimitedStrings_noIndexOfFilter(in) ==
  IF ~in.defined THEN <<>>
  ELSE SelectSeq(MapTrim(Split(in.chars, ",")), Truthy)

parseCommaDelimitedStrings(in) ==
  IF ~in.defined THEN <<>>
  ELSE LET items == SelectSeq(MapTrim(Split(in.chars, ",")), Truthy)
       IN  FilterFirst(items, Len(items))

getFilesToSkip(in) ==
  IF ~in.defined \/ in.chars = <<>> THEN <<>>
  ELSE LET files_to_skip == Split(in.chars, ",")
       IN  SelectSeq(MapTrim(files_to_skip), Truthy)

\* the parser of the add_labels input: the deduplicating list parser
getLabelsToAdd(in) == parseCommaDelimitedStrings(in)

\* run() with one string, or undefined, as both list inputs, before the
\* inputs are parsed
InitLists ==
  /\ input \in { NoInput } \cup
               { [defined |-> TRUE, chars |-> s] : s \in Strings(MaxLen) }
  /\ pc = "inputs"
  /\ action = "closed"
  /\ labels = <<>>
  /\ label = NoLabel
  /\ merged = FALSE
  /\ branchName = ""
  /\ deleteBranch = FALSE
  /\ filesToSkip = <<>>
  /\ labelsToAdd = <<>>
  /\ backportBaseToHead = <<>>
  /\ i = 0
  /\ k = 0
  /\ error = ""
  /\ created = 0
  /\ data = NoData
  /\ warned = FALSE
  /\ setFailed = <<>>
  /\ ops = <<>>
  /\ nextPullNumber = PRNumber + 1
  /\ git = [branches |-> {}, remote |-> {}, dirty |-> FALSE]
  /\ titleTemplate = <<>>
  /\ titleBase = <<>>
  /\ originalTitle = <<>>
  /\ title = <<>>

\* run(): the two list inputs are parsed
GetInputs ==
  /\ pc = "inputs"
  /\ labelsToAdd' = getLabelsToAdd(input)
  /\ filesToSkip' = getFilesToSkip(input)
  /\ pc' = "start"
  /\ UNCHANGED <<action, label, labels, merged, branchName, deleteBranch,
                 texts, data, backportBaseToHead, i, k, error, created,
                 warned, setFailed, ops, nextPullNumber, git>>

SpecLists == InitLists /\ [][GetInputs]_vars

\* s without its white space
NoWhite(s) ==
  LET Black(c) == c \notin Whitespace IN SelectSeq(s, Black)

RECURSIVE NoLeadingCommas(_)
NoLeadingCommas(s) ==
  IF s # <<>> /\ s[1] = "," THEN NoLeadingCommas(Tail(s)) ELSE s

RECURSIVE OneCommaBetween(_)
\* s, which does not begin with a comma, with every run of commas made one
\* comma, and none at the end
OneCommaBetween(s) ==
  IF Len(s) <= 1 THEN s
  ELSE IF s[2] = ","
       THEN LET rest == NoLeadingCommas(Tail(s))
            IN  IF rest = <<>> THEN << s[1] >>
                ELSE << s[1], "," >> \o OneCommaBetween(rest)
       ELSE << s[1] >> \o OneCommaBetween(Tail(s))

\* s without the commas that delimit an empty field: the commas at the
\* start, a comma after a comma, the commas at the end
NoEmptyFields(s) == OneCommaBetween(NoLeadingCommas(s))

RECURSIVE JoinComma(_)
\* the entries of list, without their white space, with commas in between
JoinComma(list) ==
  IF list = <<>> THEN <<>>
  ELSE IF Len(list) = 1 THEN NoWhite(list[1])
  ELSE NoWhite(list[1]) \o << "," >> \o JoinComma(Tail(list))

MaxPieces == 3
\* longest original title
MaxTitle == 2

\* `{{${name}}}`
Placeholder(name) == << "{", "{" >> \o name \o << "}", "}" >>

\* the keys of the object literal { base, originalTitle }, in the order of
\* Object.entries
NameBase == << "b", "a", "s", "e" >>
NameOriginalTitle ==
  << "o", "r", "i", "g", "i", "n", "a", "l", "T", "i", "t", "l", "e" >>

\* new RegExp(escapeRegExp(pattern)) matches str at position p: the
\* escaped pattern matches its own characters and nothing else
MatchesAt(str, p, pattern) ==
  /\ p + Len(pattern) - 1 <= Len(str)
  /\ SubSeq(str, p, p + Len(pattern) - 1) = pattern

RECURSIVE GetSubstitution(_, _, _, _)
\* what String.prototype.replace inserts for a match when the replacement
\* is a string: "$$" stands for "$", "$&" for the matched text, "$'" for
\* the text after the match; "$" before any other character of the model
\* is itself (the regular expression has no capture group)
GetSubstitution(matched, str, position, replacement) ==
  IF replacement = <<>> THEN <<>>
  ELSE IF replacement[1] = "$" /\ Len(replacement) >= 2
          /\ replacement[2] \in {"$", "&", "'"}
       THEN (CASE replacement[2] = "$" -> << "$" >>
               [] replacement[2] = "&" -> matched
               [] OTHER -> SubSeq(str, position + Len(matched), Len(str)))
            \o GetSubstitution(matched, str, position,
                               SubSeq(replacement, 3, Len(replacement)))
       ELSE << replacement[1] >>
            \o GetSubstitution(matched, str, position, Tail(replacement))

RECURSIVE ReplaceFrom(_, _, _, _)
\* str.replace(new RegExp(escapeRegExp(pattern), "g"), replacement) from
\* position p on: the matches are found from left to right in str, and
\* what is inserted is not searched again
ReplaceFrom(str, p, pattern, replacement) ==
  IF p > Len(str) THEN <<>>
  ELSE IF MatchesAt(str, p, pattern)
       THEN GetSubstitution(pattern, str, p, replacement)
            \o ReplaceFrom(str, p + Len(pattern), pattern, replacement)
       ELSE << str[p] >> \o ReplaceFrom(str, p + 1, pattern, replacement)

\* let title = titleTemplate; Object.entries({ base, originalTitle })
\* .forEach(([name, value]) => { title = title.replace(..., value) })
ComputedTitle(template, baseValue, titleValue) ==
  ReplaceFrom(ReplaceFrom(template, 1, Placeholder(NameBase), baseValue),
              1, Placeholder(NameOriginalTitle), titleValue)

\* the pieces that templates are made of: the two placeholders and a blank
TemplatePieces ==
  { Placeholder(NameBase), Placeholder(NameOriginalTitle), << " " >> }

RECURSIVE Templates(_)
\* the templates of at most n pieces
Templates(n) ==
  IF n = 0 THEN { <<>> }
  ELSE LET shorter == Templates(n - 1)
       IN  shorter \cup { t \o q : t \in shorter, q \in TemplatePieces }

\* the titles of pull requests: at most n characters, the "$" and the "&"
\* among them
Titles(n) == UNION { [1..m -> {"F", "$", "&"}] : m \in 0..n }

\* the bases: a usual one and one with "$" in its name
TitleBases == { << "1", ".", "x" >>, << "r", "$", "$" >> }

\* the top of an iteration of the loop of backport(), for any template,
\* base and original title
InitTitle ==
  /\ titleTemplate \in Templates(MaxPieces)
  /\ titleBase \in TitleBases
  /\ originalTitle \in Titles(MaxTitle)
  /\ title = <<>>
  /\ pc = "title"
  /\ input = NoInput
  /\ action = "closed"
  /\ labels = <<>>
  /\ label = NoLabel
  /\ merged = TRUE
  /\ branchName = ""
  /\ deleteBranch = FALSE
  /\ filesToSkip = <<>>
  /\ labelsToAdd = <<>>
  /\ backportBaseToHead = <<>>
  /\ i = 0
  /\ k = 0
  /\ error = ""
  /\ created = 0
  /\ data = NoData
  /\ warned = FALSE
  /\ setFailed = <<>>
  /\ ops = <<>>
  /\ nextPullNumber = PRNumber + 1
  /\ git = [branches |-> {}, remote |-> {}, dirty |-> FALSE]

\* backport(), lines 299-308: the title of the iteration is computed
ComputeTitle ==
  /\ pc = "title"
  /\ title' = ComputedTitle(titleTemplate, titleBase, originalTitle)
  /\ pc' = "group"
  /\ UNCHANGED <<inputs, input, titleTemplate, titleBase, originalTitle,
                 data, backportBaseToHead, i, k, error, created, warned,
                 setFailed, ops, nextPullNumber, git>>

SpecTitle == InitTitle /\ [][ComputeTitle]_vars

RECURSIVE LiteralFrom(_, _, _, _)
\* template from position p on, with every placeholder replaced by its
\* value, character for character
LiteralFrom(template, p, baseValue, titleValue) ==
  IF p > Len(template) THEN <<>>
  ELSE IF MatchesAt(template, p, Placeholder(NameBase))
       THEN baseValue \o LiteralFrom(template, p + Len(Placeholder(NameBase)),
                                     baseValue, titleValue)
  ELSE IF MatchesAt(template, p, Placeholder(NameOriginalTitle))
       THEN titleValue
            \o LiteralFrom(template, p + Len(Placeholder(NameOriginalTitle)),
                           baseValue, titleValue)
  ELSE << template[p] >> \o LiteralFrom(template, p + 1, baseValue, titleValue)

\* C14: title templating.  The title computed for a target is the template
\* with every occurrence of {{base}} replaced by the base and every
\* occurrence of {{originalTitle}} replaced by the original title, the
\* values inserted character for character, for every template, base and
\* original title.
C14_TitleTemplating ==
  pc = "group" =>
    title = LiteralFrom(titleTemplate, 1, titleBase, originalTitle)

\* the same, for the bases and the original titles without a "$"
C14_WithoutDollar ==
  (\A j \in 1..Len(titleBase) : titleBase[j] # "$")
  /\ (\A j \in 1..Len(originalTitle) : originalTitle[j] # "$")
    => C14_TitleTemplating

\* ------------------------------------------------------- step ordering
\* the steps of backportOnce in the order of the code, for the inputs of
\* the run: one restore per file to skip, the labels only when there are
\* labels to add
StepsInOrder ==
  << "switch", "switch --create", "cherry-pick" >>
  \o [ m \in 1..Len(filesToSkip) |-> "checkout" ]
  \o << "commit", "push", "pulls.create" >>
  \o (IF Len(labelsToAdd) > 0 THEN << "issues.addLabels" >> ELSE <<>>)

\* the steps of backportOnce issued for target t, in the order of issue
StepsOf(t) ==
  LET IsStepOfT(o) == o.t = t /\ o.op \in StepOps
  IN  SelectSeq(ops, IsStepOfT)

\* C15: step ordering within a target.  The steps issued for a target are
\* a beginning of: switch to the base, create the head, cherry-pick, the
\* restores of the files to skip in their order, commit, push, create the
\* pull request, add the labels; every step but the last issued has
\* succeeded.  A pull request is created only for the head that was
\* pushed, labels are added only when there are labels to add and only to
\* the pull request created for that target, and every operation issued
\* for a target (steps, abort, comment, cleanup) comes after all
\* operations of the targets before it.
C15_StepOrdering ==
  /\ \A t \in Targets :
       LET steps == StepsOf(t)
       IN  /\ Len(steps) <= Len(StepsInOrder)
           /\ \A j \in 1..Len(steps) :
                /\ steps[j].op = StepsInOrder[j]
                /\ j < Len(steps) => steps[j].ok
                /\ steps[j].op = "checkout" => steps[j].str = filesToSkip[j - 3]
                /\ steps[j].op = "pulls.create" =>
                     /\ steps[j - 1].op = "push"
                     /\ steps[j - 1].str = steps[j].str
                     /\ steps[j].str = backportBaseToHead[t].head
                /\ steps[j].op = "issues.addLabels" =>
                     /\ Len(labelsToAdd) > 0
                     /\ steps[j].num \in CreatedFor(t)
  /\ \A j \in 1..(Len(ops) - 1) : ops[j].t <= ops[j + 1].t

\* reached: the first target went through all its steps, restores and
\* labels included, and the second target has begun
C15_Witness ==
  /\ Len(filesToSkip) > 0
  /\ Len(StepsOf(1)) = Len(StepsInOrder)
  /\ Started(2)
  /\ \E j \in Issued(1, "issues.addLabels") : ops[j].ok

\* --------------------------------------- errors outside the try block
\* the operations awaited by backport() before the loop over the targets
SetupOps == {"repos.get", "clone", "config user.email", "config user.name"}

\* C16: errors outside the per-target scope are fatal.  When the query of
\* the merge methods, the clone or one of the two git config commands has
\* failed, the run has ended with its failure status set to the Error of
\* that operation, nothing was issued after it, no operation was issued
\* for any target (no branch, no pull request) and no comment was posted.
C16_SetupErrorsAreFatal ==
  \A j \in 1..Len(ops) :
    (ops[j].op \in SetupOps /\ ~ops[j].ok) =>
      /\ pc = "done"
      /\ setFailed = << ErrorMessage(ops[j].op) >>
      /\ j = Len(ops)
      /\ \A m \in 1..Len(ops) :
           /\ ops[m].t = 0
           /\ ops[m].op \in SetupOps
      /\ git.branches = {}
      /\ i = 0

\* reached: the repository was queried, the clone failed
C16_Witness ==
  /\ Len(ops) = 2
  /\ ops[2].op = "clone"
  /\ ~ops[2].ok
  /\ Len(backportBaseToHead) > 0

\* ------------------------------------------------ merge-method warning
\* the run has targets and is past the query of the merge methods
PastReposGet == Len(backportBaseToHead) > 0 /\ pc \notin {"start", "repos_get"}

\* the failure status, when set, is the Error of an operation that failed
FailedByAnOperation ==
  setFailed # <<>> =>
    \E j \in 1..Len(ops) :
      ~ops[j].ok /\ setFailed = << ErrorMessage(ops[j].op) >>

\* the step that follows the answer of repos.get: the warning is emitted
\* exactly when merge commits or rebase merging are allowed, and with or
\* without it the run goes on to the clone with nothing else changed
WarningStep ==
  pc = "warn" =>
    /\ warned' = (data.allow_merge_commit \/ data.allow_rebase_merge)
    /\ pc' = "clone"
    /\ UNCHANGED <<inputs, backportBaseToHead, i, k, error, created,
                   setFailed, ops, nextPullNumber, git>>

\* C17: merge-method warning.  In every run with at least one target the
\* merge methods are queried exactly once, as the first operation, before
\* the clone and before any step of a target; the warning is emitted when
\* merge commits or rebase merging are allowed (and only then); emitting it
\* changes nothing but the warning itself, the run goes on to the same
\* clone, targets and steps, and a failure status is never set by it but
\* only by an operation that failed.
C17_MergeMethodWarning ==
  /\ [](PastReposGet =>
          /\ ops[1].op = "repos.get"
          /\ \A j \in 2..Len(ops) : ops[j].op # "repos.get")
  /\ [](warned => PastReposGet /\ ops[1].ok)
  /\ []FailedByAnOperation
  /\ [][WarningStep]_vars

\* reached: the warning was emitted and the run went on to create a pull
\* request and ended without failure status
C17_Witness ==
  /\ warned
  /\ pc = "done"
  /\ setFailed = <<>>
  /\ CreatedFor(1) # {}

\* ------------------------------------------------- failing merge check
\* C18: a failing merge check is not an error.  When the merged-query of
\* the cleanup of a target has failed (error, not found, not merged), no
\* remote deletion is issued for that target, the failure status is not
\* set by it and the run goes on: the next operation, if any, is the
\* switch of the next target, and after the last target the run is over.
\* When the query has succeeded, the force-delete is what comes next: the
\* deletion is issued exactly when the query succeeds.
C18_FailingMergeCheckIsNotAnError ==
  \A j \in 1..Len(ops) :
    ops[j].op = "pulls.checkIfMerged" =>
      LET t == ops[j].t
      IN  IF ops[j].ok
          THEN IF j = Len(ops)
               THEN pc = "push_delete" /\ i = t
               ELSE ops[j + 1].op = "push --delete" /\ ops[j + 1].t = t
          ELSE /\ Issued(t, "push --delete") = {}
               /\ IF j = Len(ops)
                  THEN /\ setFailed = <<>>
                       /\ IF t < Len(backportBaseToHead)
                          THEN pc = "switch" /\ i = t + 1
                          ELSE pc = "done"
                  ELSE ops[j + 1].op = "switch" /\ ops[j + 1].t = t + 1

\* reached: the merged-query of the first target failed, nothing was
\* deleted and the second target was processed
C18_Witness ==
  /\ \E j \in Issued(1, "pulls.checkIfMerged") : ~ops[j].ok
  /\ Issued(1, "push --delete") = {}
  /\ Started(2)
  /\ pc = "done"
  /\ setFailed = <<>>

\* ------------------------------------------------- clean working copy
\* C19: the working copy is clean between targets.  Whenever git switch
\* <base> of a target is about to be executed, the working copy holds no
\* changes of an unfinished cherry-pick of an earlier target, staged or
\* in conflict, whatever step that target failed at.
C19_CleanWorkingCopyAtSwitch ==
  pc = "switch" => ~git.dirty

\* the same, for the runs in which no abort of a cherry-pick was rejected
C19_WhenAbortsSucceed ==
  (\A j \in 1..Len(ops) : ops[j].op = AbortOp => ops[j].ok)
    => C19_CleanWorkingCopyAtSwitch

====
